---- MODULE Spec2Model ----
(***************************************************************************)
(* A model of generate_forms.py: the label normaliser, the filename        *)
(* sanitiser, the [[...]] placeholder substitution, the $Field[N] name     *)
(* template evaluator, the output name resolver and the main loop that     *)
(* writes one document per CSV row.                                        *)
(*                                                                         *)
(* A Python str is a sequence of one-character strings, <<"A", "b">>.      *)
(* Characters outside ASCII are written by code point: "U+00E9" is an e    *)
(* with acute accent, "U+0301" the combining acute accent.                 *)
(***************************************************************************)
EXTENDS Integers, Sequences, FiniteSets, TLC

VARIABLES
    \* normalize_label on a label and on a variant of it
    label, variant, key, variantKey,
    \* replace_placeholders on one paragraph
    text, replacements, updated,
    \* resolve_name / evaluate_name_template on one row
    pieces, name_column, row, index, evaluated, base,
    \* main()
    pc, csv, templateExists, outdirExists, disk, disk0, rows, rowIndex,
    document, base_name, counter, final_path, saved, printed, exitStatus

normVars == <<label, variant, key, variantKey>>
substVars == <<text, replacements, updated>>
nameVars == <<pieces, name_column, row, index, evaluated, base>>
mainVars == <<pc, csv, templateExists, outdirExists, disk, disk0, rows,
              rowIndex, document, base_name, counter, final_path, saved,
              printed, exitStatus>>
vars == <<normVars, substVars, nameVars, mainVars>>

\* The value of a result that has not been computed yet.
Unset == <<"unset">>

----------------------------------------------------------------------------
(* Bounds of the model. *)

MaxLabelLen == 3
MaxVariantLen == 4
MaxSegments == 3
MaxPieces == 2
MaxCols == 2
MaxRows == 3

----------------------------------------------------------------------------
(* Python str primitives. *)

\* str.isspace() / the regex class \s, on the characters the model uses.
IsSpace(c) == c \in {" ", "\t"}

RECURSIVE LStrip(_)
LStrip(s) ==
    IF s = <<>> THEN s
    ELSE IF IsSpace(Head(s)) THEN LStrip(Tail(s)) ELSE s

RECURSIVE RStrip(_)
RStrip(s) ==
    IF s = <<>> THEN s
    ELSE IF IsSpace(s[Len(s)]) THEN RStrip(SubSeq(s, 1, Len(s) - 1)) ELSE s

\* str.strip()
Strip(s) == RStrip(LStrip(s))

\* re.sub(r"\s+", repl, s): every maximal run of whitespace becomes repl.
RECURSIVE SubSpaceRuns(_, _)
SubSpaceRuns(s, repl) ==
    IF s = <<>> THEN <<>>
    ELSE IF IsSpace(Head(s)) THEN repl \o SubSpaceRuns(LStrip(s), repl)
    ELSE <<Head(s)>> \o SubSpaceRuns(Tail(s), repl)

UpperChars == <<"A", "B", "C", "D", "E", "F", "G", "H", "I", "J", "K", "L", "M",
                "N", "O", "P", "Q", "R", "S", "T", "U", "V", "W", "X", "Y", "Z",
                "U+00C9">>
LowerChars == <<"a", "b", "c", "d", "e", "f", "g", "h", "i", "j", "k", "l", "m",
                "n", "o", "p", "q", "r", "s", "t", "u", "v", "w", "x", "y", "z",
                "U+00E9">>

\* str.casefold() of one character: a string, since U+00DF folds to "ss".
CasefoldChar(c) ==
    IF c = "U+00DF" THEN <<"s", "s">>
    ELSE IF \E i \in DOMAIN UpperChars : UpperChars[i] = c
         THEN <<LowerChars[CHOOSE i \in DOMAIN UpperChars : UpperChars[i] = c]>>
         ELSE <<c>>

RECURSIVE Casefold(_)
Casefold(s) ==
    IF s = <<>> THEN <<>> ELSE CasefoldChar(Head(s)) \o Casefold(Tail(s))

----------------------------------------------------------------------------
(* normalize_label *)

normalize_label(lbl) ==
    IF lbl = <<>> THEN <<>>
    ELSE LET clean1 == Strip(lbl)
             clean2 == IF clean1 # <<>> /\ Head(clean1) = "#"
                       THEN Tail(clean1) ELSE clean1
             clean3 == SubSpaceRuns(clean2, <<" ">>)
         IN  Casefold(clean3)

----------------------------------------------------------------------------
(* strip_diacritics and sanitize_filename *)

\* unicodedata.normalize("NFKD", c) of one character.
NFKDChar(c) ==
    CASE c = "U+00E9" -> <<"e", "U+0301">>
      [] c = "U+00C9" -> <<"E", "U+0301">>
      [] OTHER -> <<c>>

\* unicodedata.combining(c) != 0
IsCombining(c) == c = "U+0301"

RECURSIVE NFKD(_)
NFKD(s) == IF s = <<>> THEN <<>> ELSE NFKDChar(Head(s)) \o NFKD(Tail(s))

\* "".join(char for char in s if not unicodedata.combining(char))
RECURSIVE DropCombining(_)
DropCombining(s) ==
    IF s = <<>> THEN <<>>
    ELSE (IF IsCombining(Head(s)) THEN <<>> ELSE <<Head(s)>>)
            \o DropCombining(Tail(s))

strip_diacritics(s) == DropCombining(NFKD(s))

DigitChars == <<"0", "1", "2", "3", "4", "5", "6", "7", "8", "9">>
IsDigit(c) == \E i \in DOMAIN DigitChars : DigitChars[i] = c

\* The regex class [A-Za-z0-9._-]
IsFilenameChar(c) ==
    \/ \E i \in 1..26 : UpperChars[i] = c \/ LowerChars[i] = c
    \/ IsDigit(c)
    \/ c \in {".", "_", "-"}

\* re.sub(r"[^A-Za-z0-9._-]", "", s)
RECURSIVE DropUnsafe(_)
DropUnsafe(s) ==
    IF s = <<>> THEN <<>>
    ELSE (IF IsFilenameChar(Head(s)) THEN <<Head(s)>> ELSE <<>>)
            \o DropUnsafe(Tail(s))

sanitize_filename(raw) ==
    LET value1 == strip_diacritics(Strip(raw))
        value2 == SubSpaceRuns(value1, <<"_">>)
    IN  DropUnsafe(value2)

----------------------------------------------------------------------------
(* PLACEHOLDER_PATTERN and replace_placeholders *)

\* The result None of a search that finds nothing.
NoMatch == [start |-> 0, end |-> 0, group0 |-> <<>>, group1 |-> <<>>]

\* The ways \[\[\s*([^\]]+?)\s*\]\] can match t with its first bracket at p:
\* <<a, n, b>> for a whitespace characters, a capture of n >= 1 characters
\* other than "]", b whitespace characters, and then "]]" at q.
PlaceholderWays(t, p) ==
    IF ~(p + 1 <= Len(t) /\ t[p] = "[" /\ t[p + 1] = "[") THEN {}
    ELSE LET closings == {q \in (p + 3)..(Len(t) - 1) :
                            t[q] = "]" /\ t[q + 1] = "]"}
             splits(q) == {<<a, n, q - (p + 2) - a - n>> :
                             a \in 0..(q - p - 3), n \in 1..(q - p - 2)}
         IN  {w \in UNION {splits(q) : q \in closings} :
                LET a == w[1]
                    n == w[2]
                    b == w[3]
                IN  /\ b >= 0
                    /\ \A i \in (p + 2)..(p + 1 + a) : IsSpace(t[i])
                    /\ \A i \in (p + 2 + a)..(p + 1 + a + n) : t[i] # "]"
                    /\ \A i \in (p + 2 + a + n)..(p + 1 + a + n + b) :
                            IsSpace(t[i])}

\* The match the backtracking engine reports at p: the first \s* is greedy,
\* the capture is lazy, the second \s* is greedy.
PlaceholderMatchAt(t, p) ==
    LET ways == PlaceholderWays(t, p)
    IN  IF ways = {} THEN NoMatch
        ELSE LET w == CHOOSE x \in ways : \A y \in ways :
                        \/ x[1] > y[1]
                        \/ x[1] = y[1] /\ x[2] < y[2]
                        \/ x[1] = y[1] /\ x[2] = y[2] /\ x[3] >= y[3]
                 last == p + 3 + w[1] + w[2] + w[3]
             IN  [start |-> p, end |-> last,
                  group0 |-> SubSeq(t, p, last),
                  group1 |-> SubSeq(t, p + 2 + w[1], p + 1 + w[1] + w[2])]

\* Pattern.search(t, pos): the leftmost match starting at pos or later.
PlaceholderSearch(t, pos) ==
    LET starts == {p \in pos..Len(t) : PlaceholderMatchAt(t, p) # NoMatch}
    IN  IF starts = {} THEN NoMatch
        ELSE PlaceholderMatchAt(t, CHOOSE p \in starts : \A q \in starts : p <= q)

\* dict.get(k, "") and "k in d" on a replacement table, a function from the
\* normalised keys to the values.
InTable(table, k) == k \in DOMAIN table
Get(table, k) == IF k \in DOMAIN table THEN table[k] ELSE <<>>
Put(table, k, v) == [x \in DOMAIN table \cup {k} |-> IF x = k THEN v ELSE table[x]]
EmptyTable == [x \in {} |-> <<>>]

\* PlaceholderRepl with a placeholder whose key is unknown removed instead of
\* left in place.
PlaceholderRepl_dropUnknown(m, table) ==
    LET k == normalize_label(m.group1)
    IN  IF InTable(table, k) THEN table[k] ELSE <<>>

\* The callback repl of replace_placeholders.
PlaceholderRepl(m, table) ==
    LET raw_key == m.group1
        k == normalize_label(raw_key)
    IN  IF InTable(table, k) THEN table[k] ELSE m.group0

\* PLACEHOLDER_PATTERN.sub(repl, t), from position pos on.
RECURSIVE PlaceholderSub(_, _, _)
PlaceholderSub(t, pos, table) ==
    LET m == PlaceholderSearch(t, pos)
    IN  IF m = NoMatch THEN SubSeq(t, pos, Len(t))
        ELSE SubSeq(t, pos, m.start - 1) \o PlaceholderRepl(m, table)
                \o PlaceholderSub(t, m.end + 1, table)

replace_placeholders(t, table) == PlaceholderSub(t, 1, table)

----------------------------------------------------------------------------
(* NAME_TEMPLATE_PATTERN and evaluate_name_template *)

\* Python's None where a str may stand.
None == <<"None">>

\* bool(x) of an Optional[str]
Truthy(x) == x # None /\ x # <<>>

\* The character class [^$\[\]]
IsFieldChar(c) == c \notin {"$", "[", "]"}

\* The ways \$([^$\[\]]+?)(?:\[(\d+)\])? can match t with its sigil at p:
\* <<n, d>> for a label of n >= 1 field characters followed by nothing
\* (d = 0) or by "[", d >= 1 digits and "]".
NameWays(t, p) ==
    IF ~(p <= Len(t) /\ t[p] = "$") THEN {}
    ELSE LET labels == {n \in 1..(Len(t) - p) :
                            \A i \in (p + 1)..(p + n) : IsFieldChar(t[i])}
             indexes(n) == {d \in 1..(Len(t) - p - n - 2) :
                            /\ t[p + n + 1] = "["
                            /\ \A i \in (p + n + 2)..(p + n + d + 1) :
                                    IsDigit(t[i])
                            /\ t[p + n + d + 2] = "]"}
         IN  UNION {{<<n, 0>>} \cup {<<n, d>> : d \in indexes(n)} :
                        n \in labels}

NoNameMatch == [start |-> 0, end |-> 0, group1 |-> <<>>, group2 |-> None]

\* The match the backtracking engine reports at p: the label is lazy, so the
\* shortest label after which the rest of the pattern matches wins, and the
\* rest of the pattern is an optional group, which is tried present first.
NameMatchAt(t, p) ==
    LET ways == NameWays(t, p)
    IN  IF ways = {} THEN NoNameMatch
        ELSE LET w == CHOOSE x \in ways : \A y \in ways :
                        \/ x[1] < y[1]
                        \/ x[1] = y[1] /\ x[2] >= y[2]
                 n == w[1]
                 d == w[2]
             IN  [start |-> p,
                  end |-> IF d > 0 THEN p + n + d + 2 ELSE p + n,
                  group1 |-> SubSeq(t, p + 1, p + n),
                  group2 |-> IF d > 0 THEN SubSeq(t, p + n + 2, p + n + d + 1)
                             ELSE None]

\* NAME_TEMPLATE_PATTERN.search(t, pos)
NameSearch(t, pos) ==
    LET starts == {p \in pos..Len(t) : NameMatchAt(t, p) # NoNameMatch}
    IN  IF starts = {} THEN NoNameMatch
        ELSE NameMatchAt(t, CHOOSE p \in starts : \A q \in starts : p <= q)

\* int(s) of a string of decimal digits
DigitValue(c) == (CHOOSE i \in DOMAIN DigitChars : DigitChars[i] = c) - 1

RECURSIVE ParseInt(_)
ParseInt(s) ==
    IF s = <<>> THEN 0
    ELSE 10 * ParseInt(SubSeq(s, 1, Len(s) - 1)) + DigitValue(s[Len(s)])

\* The first word of s, s starting with a character that is no whitespace.
RECURSIVE FirstWord(_)
FirstWord(s) ==
    IF s = <<>> \/ IsSpace(Head(s)) THEN <<>>
    ELSE <<Head(s)>> \o FirstWord(Tail(s))

\* str.split(): the whitespace-separated parts of s, a sequence of strings.
RECURSIVE Split(_)
Split(s) ==
    LET rest == LStrip(s)
    IN  IF rest = <<>> THEN <<>>
        ELSE LET word == FirstWord(rest)
             IN  <<word>> \o Split(SubSeq(rest, Len(word) + 1, Len(rest)))

\* The callback repl of evaluate_name_template.
NameRepl(m, table) ==
    LET lbl == m.group1
        index_str == m.group2
        k == normalize_label(lbl)
        value == Get(table, k)
    IN  IF value = <<>> THEN <<>>
        ELSE IF index_str # None
             THEN LET idx == ParseInt(index_str)
                      parts == Split(value)
                  IN  IF 0 <= idx /\ idx < Len(parts) THEN parts[idx + 1]
                      ELSE <<>>
             ELSE value

\* NAME_TEMPLATE_PATTERN.sub(repl, t), from position pos on.
RECURSIVE NameSub(_, _, _)
NameSub(t, pos, table) ==
    LET m == NameSearch(t, pos)
    IN  IF m = NoNameMatch THEN SubSeq(t, pos, Len(t))
        ELSE SubSeq(t, pos, m.start - 1) \o NameRepl(m, table)
                \o NameSub(t, m.end + 1, table)

evaluate_name_template(template, table) == NameSub(template, 1, table)

----------------------------------------------------------------------------
(* row_to_replacements and resolve_name.  A row is a dict in column order: *)
(* a sequence of <<label, value>> pairs with distinct labels.              *)

RECURSIVE row_to_replacements(_)
row_to_replacements(r) ==
    IF r = <<>> THEN EmptyTable
    ELSE LET last == r[Len(r)]
         IN  Put(row_to_replacements(SubSeq(r, 1, Len(r) - 1)),
                 normalize_label(last[1]), last[2])

\* The decimal digits of n >= 0, most significant first.
RECURSIVE Decimal(_)
Decimal(n) ==
    IF n < 10 THEN <<DigitChars[n + 1]>>
    ELSE Decimal(n \div 10) \o <<DigitChars[(n % 10) + 1]>>

\* format(n, "03d") for n >= 0
RECURSIVE ZeroPad(_, _)
ZeroPad(s, width) == IF Len(s) >= width THEN s ELSE ZeroPad(<<"0">> \o s, width)

FallbackWidth == 3
Format03d(n) == ZeroPad(Decimal(n), FallbackWidth)

\* The name taken from --name-column, or "" when there is none.
NameColumnCandidate(table, name_col) ==
    IF Truthy(name_col)
    THEN LET target == IF NameSearch(name_col, 1) # NoNameMatch
                       THEN evaluate_name_template(name_col, table)
                       ELSE Get(table, normalize_label(name_col))
             stripped == Strip(target)
         IN  IF stripped # <<>> THEN sanitize_filename(stripped) ELSE <<>>
    ELSE <<>>

\* FirstValueName stopping at the first value that is not empty, whatever it
\* sanitises to.
RECURSIVE FirstValueName_noSkip(_)
FirstValueName_noSkip(r) ==
    IF r = <<>> THEN <<>>
    ELSE LET value == Head(r)[2]
         IN  IF value # <<>> /\ Strip(value) # <<>>
             THEN sanitize_filename(value)
             ELSE FirstValueName_noSkip(Tail(r))

\* The loop "fallback to first non-empty column value": the sanitised form
\* of the first value that sanitises to something, or "" when the loop ends.
RECURSIVE FirstValueName(_)
FirstValueName(r) ==
    IF r = <<>> THEN <<>>
    ELSE LET value == Head(r)[2]
             sanitized == sanitize_filename(value)
         IN  IF value # <<>> /\ Strip(value) # <<>> /\ sanitized # <<>>
             THEN sanitized
             ELSE FirstValueName(Tail(r))

\* resolve_name without the row_ fallback name.
resolve_name_noFallback(r, table, name_col, idx) ==
    LET fromColumn == NameColumnCandidate(table, name_col)
    IN  IF fromColumn # <<>> THEN fromColumn ELSE FirstValueName(r)

resolve_name(r, table, name_col, idx) ==
    LET fromColumn == NameColumnCandidate(table, name_col)
        fromValues == FirstValueName(r)
    IN  IF fromColumn # <<>> THEN fromColumn
        ELSE IF fromValues # <<>> THEN fromValues
        ELSE <<"r", "o", "w", "_">> \o Format03d(idx)

----------------------------------------------------------------------------
(* The state of each part of the program before it runs. *)

SeqsUpTo(S, n) == UNION {[1..k -> S] : k \in 0..n}

IdleNorm == label = <<>> /\ variant = <<>> /\ key = Unset /\ variantKey = Unset

IdleSubst == text = <<>> /\ replacements = EmptyTable /\ updated = Unset

IdleName ==
    /\ pieces = <<>> /\ name_column = None /\ row = <<>> /\ index = 0
    /\ evaluated = Unset /\ base = Unset

IdleMain ==
    /\ pc = "idle" /\ csv = <<>> /\ templateExists = FALSE
    /\ outdirExists = FALSE /\ disk = EmptyTable /\ disk0 = EmptyTable
    /\ rows = <<>> /\ rowIndex = 0 /\ document = Unset /\ base_name = Unset
    /\ counter = 0 /\ final_path = Unset /\ saved = <<>> /\ printed = <<>>
    /\ exitStatus = -1

----------------------------------------------------------------------------
(* SpecNorm: normalize_label applied to a label and to a variant of it that *)
(* differs from it in letter case, in whitespace or in a leading "#".       *)

LabelChars == {"A", "a", "#", " ", "\t"}
WhitespaceChars == {c \in LabelChars : IsSpace(c)}

InitNorm ==
    /\ label \in SeqsUpTo(LabelChars, MaxLabelLen)
    /\ variant = label
    /\ key = Unset /\ variantKey = Unset
    /\ IdleSubst /\ IdleName /\ IdleMain

\* key = normalize_label(label)
Normalize ==
    /\ key = Unset
    /\ key' = normalize_label(label)
    /\ variantKey' = normalize_label(variant)
    /\ UNCHANGED <<label, variant, substVars, nameVars, mainVars>>

\* The other case of the letter c.
SwapCase(c) ==
    IF \E i \in DOMAIN UpperChars : UpperChars[i] = c
    THEN LowerChars[CHOOSE i \in DOMAIN UpperChars : UpperChars[i] = c]
    ELSE IF \E i \in DOMAIN LowerChars : LowerChars[i] = c
    THEN UpperChars[CHOOSE i \in DOMAIN LowerChars : LowerChars[i] = c]
    ELSE c

Renormalize(v) ==
    /\ key # Unset
    /\ variant' = v
    /\ variantKey' = normalize_label(v)
    /\ UNCHANGED <<label, key, substVars, nameVars, mainVars>>

\* The variant with the case of one letter changed.
ChangeCase ==
    \E i \in DOMAIN variant :
        /\ SwapCase(variant[i]) # variant[i]
        /\ Renormalize([variant EXCEPT ![i] = SwapCase(variant[i])])

\* The variant with one more whitespace character before it.
PadLeft ==
    \E c \in WhitespaceChars :
        /\ Len(variant) < MaxVariantLen
        /\ Renormalize(<<c>> \o variant)

\* The variant with one more whitespace character after it.
PadRight ==
    \E c \in WhitespaceChars :
        /\ Len(variant) < MaxVariantLen
        /\ Renormalize(variant \o <<c>>)

\* The variant with one of its whitespace runs one character longer.
StretchRun ==
    \E i \in DOMAIN variant : \E c \in WhitespaceChars :
        /\ Len(variant) < MaxVariantLen
        /\ IsSpace(variant[i])
        /\ Renormalize(SubSeq(variant, 1, i) \o <<c>>
                         \o SubSeq(variant, i + 1, Len(variant)))

\* The variant with a leading "#", when it has none.
AddHash ==
    /\ Len(variant) < MaxVariantLen
    /\ IF variant = <<>> THEN TRUE ELSE Head(variant) # "#"
    /\ Renormalize(<<"#">> \o variant)

NextNorm ==
    \/ Normalize
    \/ ChangeCase
    \/ PadLeft
    \/ PadRight
    \/ StretchRun
    \/ AddHash

SpecNorm == InitNorm /\ [][NextNorm]_vars

\* C3: normalize_label is idempotent: normalising the key of any label
\* gives the same key again.
C3_NormalizeIdempotent ==
    key # Unset => normalize_label(key) = key

\* C4: a label and a variant of it that differs only in letter case,
\* surrounding whitespace, the length of whitespace runs or a leading "#"
\* have the same key.
C4_VariantsNormalizeAlike ==
    key # Unset => variantKey = key

----------------------------------------------------------------------------
(* SpecSubst: replace_placeholders applied to one paragraph of text.       *)

Str_K == <<"[", "[", "K", "]", "]">>
Str_k == <<"[", "[", " ", "k", "\t", "]", "]">>
Str_x == <<"[", "[", "x", "]", "]">>

\* The pieces a paragraph is put together from: whole placeholders, loose
\* brackets, whitespace and letters.
Segments ==
    {Str_K, Str_k, Str_x, <<"[", "[">>, <<"]", "]">>, <<"]">>, <<" ">>, <<"x">>}

RECURSIVE Concat(_)
Concat(ss) == IF ss = <<>> THEN <<>> ELSE Head(ss) \o Concat(Tail(ss))

Paragraphs == {Concat(ss) : ss \in SeqsUpTo(Segments, MaxSegments)}

Tables ==
    {EmptyTable,
     Put(EmptyTable, <<"k">>, <<"v">>),
     Put(EmptyTable, <<"k">>, Str_x),
     Put(Put(EmptyTable, <<"k">>, <<>>), <<"x">>, Str_K)}

InitSubst ==
    /\ text \in Paragraphs
    /\ replacements \in Tables
    /\ updated = Unset
    /\ IdleNorm /\ IdleName /\ IdleMain

\* updated = replace_placeholders(original, replacements)
Substitute ==
    /\ updated = Unset
    /\ updated' = replace_placeholders(text, replacements)
    /\ UNCHANGED <<text, replacements, normVars, nameVars, mainVars>>

NextSubst == Substitute

SpecSubst == InitSubst /\ [][NextSubst]_vars

\* The recognised placeholders of t from position pos on, left to right.
RECURSIVE Occurrences(_, _)
Occurrences(t, pos) ==
    LET m == PlaceholderSearch(t, pos)
    IN  IF m = NoMatch THEN <<>> ELSE <<m>> \o Occurrences(t, m.end + 1)

\* t with the spans of its first n occurrences rewritten, the last of them
\* first: a span whose key is in the table becomes the value, another span
\* stays as it is.
RECURSIVE Rewritten(_, _, _, _)
Rewritten(t, occ, n, table) ==
    IF n = 0 THEN t
    ELSE LET m == occ[n]
             k == normalize_label(Strip(SubSeq(t, m.start + 2, m.end - 2)))
             span == IF k \in DOMAIN table THEN table[k]
                     ELSE SubSeq(t, m.start, m.end)
         IN  Rewritten(SubSeq(t, 1, m.start - 1) \o span
                         \o SubSeq(t, m.end + 1, Len(t)),
                       occ, n - 1, table)

\* C5: replace_placeholders rewrites each recognised [[key]] on its own: the
\* whole span becomes the table value when the normalised key is in the
\* table and stays as it was otherwise, the text outside the placeholders is
\* unchanged, and with an empty table the output is the input.
C5_EachPlaceholderRewritten ==
    updated # Unset =>
        /\ LET occ == Occurrences(text, 1)
           IN  updated = Rewritten(text, occ, Len(occ), replacements)
        /\ replacements = EmptyTable => updated = text

\* C5's case: a paragraph with two placeholders, the first known to the table
\* and replaced, the second unknown and left as it was.
C5_Witness ==
    /\ updated # Unset
    /\ text = Str_K \o <<" ">> \o Str_x
    /\ replacements = Put(EmptyTable, <<"k">>, <<"v">>)
    /\ updated = <<"v", " ">> \o Str_x

----------------------------------------------------------------------------
(* SpecName: evaluate_name_template and resolve_name applied to one row.   *)
(* The value of --name-column is put together from pieces, each a literal  *)
(* text or a token $Field or $Field[N] (idx = -1 for a token without [N]). *)

Str_Name == <<"N", "a", "m", "e">>
Str_AnaLopez == <<"A", "n", "a", " ", "L", "o", "p", "e", "z">>

Fields == {Str_Name, <<"N">>}
TokenIndexes == {-1, 0, 1, 5}
Literals == {<<" ">>, Str_Name}
ColumnLabels == {Str_Name, <<"N">>}
CellValues == {<<>>, Str_AnaLopez, <<"!">>, <<"U+00E9", " ", "a">>}
RowIndexes == {1, 12}

Lit(s) == [kind |-> "lit", s |-> s, idx |-> -1]
Tok(f, i) == [kind |-> "tok", s |-> f, idx |-> i]

PiecePool == {Lit(s) : s \in Literals}
                \cup {Tok(f, i) : f \in Fields, i \in TokenIndexes}

\* The text of a piece as it stands in the template.
Render(piece) ==
    IF piece.kind = "lit" THEN piece.s
    ELSE <<"$">> \o piece.s
            \o (IF piece.idx >= 0 THEN <<"[">> \o Decimal(piece.idx) \o <<"]">>
                ELSE <<>>)

RECURSIVE RenderAll(_)
RenderAll(ps) == IF ps = <<>> THEN <<>> ELSE Render(Head(ps)) \o RenderAll(Tail(ps))

\* The rows of up to MaxCols columns: dicts, so no label twice.
RowPool ==
    {r \in SeqsUpTo(ColumnLabels \X CellValues, MaxCols) :
        \A i, j \in DOMAIN r : i # j => r[i][1] # r[j][1]}

InitName ==
    /\ pieces \in SeqsUpTo(PiecePool, MaxPieces)
    /\ name_column = IF pieces = <<>> THEN None ELSE RenderAll(pieces)
    /\ row \in RowPool
    /\ index \in RowIndexes
    /\ replacements = EmptyTable
    /\ evaluated = Unset /\ base = Unset
    /\ text = <<>> /\ updated = Unset
    /\ IdleNorm /\ IdleMain

\* replacements = row_to_replacements(row), then
\* evaluate_name_template(name_column, replacements)
Evaluate ==
    /\ evaluated = Unset /\ base = Unset
    /\ name_column # None
    /\ replacements' = row_to_replacements(row)
    /\ evaluated' = evaluate_name_template(name_column, replacements')
    /\ UNCHANGED <<pieces, name_column, row, index, base, text, updated,
                   normVars, mainVars>>

\* replacements = row_to_replacements(row), then
\* base_name = resolve_name(row, replacements, name_column=..., index=index)
Resolve ==
    /\ evaluated = Unset /\ base = Unset
    /\ replacements' = row_to_replacements(row)
    /\ base' = resolve_name(row, replacements', name_column, index)
    /\ UNCHANGED <<pieces, name_column, row, index, evaluated, text, updated,
                   normVars, mainVars>>

NextName ==
    \/ Evaluate
    \/ Resolve

SpecName == InitName /\ [][NextName]_vars

\* What the name template is documented to put in place of one piece: a
\* literal stays, $Field gives the whole value of the column Field, and
\* $Field[N] the N-th whitespace-separated part of it or "".
Documented(piece, table) ==
    LET value == Get(table, normalize_label(piece.s))
        parts == Split(value)
    IN  IF piece.kind = "lit" THEN piece.s
        ELSE IF piece.idx < 0 THEN value
        ELSE IF piece.idx < Len(parts) THEN parts[piece.idx + 1]
        ELSE <<>>

RECURSIVE DocumentedAll(_, _)
DocumentedAll(ps, table) ==
    IF ps = <<>> THEN <<>>
    ELSE Documented(Head(ps), table) \o DocumentedAll(Tail(ps), table)

IsSpaceLit(piece) == piece.kind = "lit" /\ piece.s = <<" ">>
IsIndexedToken(piece) == piece.kind = "tok" /\ piece.idx >= 0
IsPlainToken(piece) == piece.kind = "tok" /\ piece.idx < 0

\* C1: a template of tokens $Field[N] with a field name of several
\* characters evaluates to the N-th part of each field's value, or to "" for
\* an index out of range or a field that is absent.
C1_IndexedTokenSelectsPart ==
    (/\ evaluated # Unset
     /\ \A i \in DOMAIN pieces :
            \/ IsSpaceLit(pieces[i])
            \/ IsIndexedToken(pieces[i]) /\ Len(pieces[i].s) > 1)
        => evaluated = DocumentedAll(pieces, replacements)

\* C2: a template of tokens $Field and literal text evaluates to the values
\* of the fields with the literal text between them, and the row is saved
\* under the sanitised form of that name.
C2_PlainTokenGivesValue ==
    /\ (/\ evaluated # Unset
        /\ \A i \in DOMAIN pieces :
                IsSpaceLit(pieces[i]) \/ IsPlainToken(pieces[i]))
            => evaluated = DocumentedAll(pieces, replacements)
    /\ (/\ base # Unset
        /\ \A i \in DOMAIN pieces :
                IsSpaceLit(pieces[i]) \/ IsPlainToken(pieces[i])
        /\ sanitize_filename(DocumentedAll(pieces, replacements)) # <<>>)
            => base = sanitize_filename(DocumentedAll(pieces, replacements))

\* The rows whose every value is empty.
AllEmpty(r) == \A i \in DOMAIN r : r[i][2] = <<>>

\* C7: resolve_name returns a name that is not empty, and for a row of empty
\* values without a name template the name is row_ and the row's index in
\* decimal, padded with zeros to three digits.
C7_NameNeverEmpty ==
    base # Unset =>
        /\ base # <<>>
        /\ (AllEmpty(row) /\ name_column = None) =>
              LET digits == SubSeq(base, 5, Len(base))
              IN  /\ SubSeq(base, 1, 4) = <<"r", "o", "w", "_">>
                  /\ Len(digits) >= 3
                  /\ \A i \in DOMAIN digits : IsDigit(digits[i])
                  /\ ParseInt(digits) = index
                  /\ Len(digits) > 3 => digits[1] # "0"

\* C7's case: the twelfth row, its values empty, no name template.
C7_Witness ==
    /\ base = <<"r", "o", "w", "_", "0", "1", "2">>
    /\ Len(row) = 2 /\ AllEmpty(row)
    /\ name_column = None
    /\ index = 12

\* The columns of r whose value is not empty, and those whose value
\* sanitises to a name that is not empty.
NonEmptyColumns(r) == {i \in DOMAIN r : r[i][2] # <<>>}
UsableColumns(r) == {i \in DOMAIN r : sanitize_filename(r[i][2]) # <<>>}
Least(S) == CHOOSE i \in S : \A j \in S : i <= j

\* C9 as stated: when the name template or column gives no usable name and
\* the row has a value that is not empty, resolve_name returns the sanitised
\* form of the first such value.
C9_FirstNonEmptyValue ==
    (/\ base # Unset
     /\ NameColumnCandidate(replacements, name_column) = <<>>
     /\ NonEmptyColumns(row) # {})
        => base = sanitize_filename(row[Least(NonEmptyColumns(row))][2])

\* C9 as amended: in that case resolve_name returns the sanitised form of
\* the first value, in column order, that sanitises to a name that is not
\* empty, and the row_ fallback name when no value does.
C9_FirstUsableValue ==
    (/\ base # Unset
     /\ NameColumnCandidate(replacements, name_column) = <<>>
     /\ NonEmptyColumns(row) # {})
        => IF UsableColumns(row) # {}
           THEN base = sanitize_filename(row[Least(UsableColumns(row))][2])
           ELSE base = <<"r", "o", "w", "_">> \o Format03d(index)

\* C9's case: the first value is "!", which sanitises to nothing, and the
\* name is taken from the second value.
C9_Witness ==
    /\ base = <<"e", "_", "a">>
    /\ name_column = None
    /\ Len(row) = 2
    /\ row[1][2] = <<"!">>
    /\ row[2][2] = <<"U+00E9", " ", "a">>

----------------------------------------------------------------------------
(* SpecMain: main().  The output directory is a table from the names of    *)
(* its files to their contents, a document being its paragraphs.           *)

Str_juan == <<"j", "u", "a", "n">>
Str_juan_1 == <<"j", "u", "a", "n", "_", "1">>
Str_docx == <<".", "d", "o", "c", "x">>

\* The paragraphs of the template document.
TemplateParagraphs == <<<<"[", "[", " ", "n", "a", "m", "e", "]", "]">>>>

\* The contents of a file that was in the output directory before the run.
OldDocument == <<<<"o", "l", "d">>>>

Header == <<Str_Name>>
RawCells == {Str_juan, Str_juan_1, <<" ">>}
RawRecords == SeqsUpTo([DOMAIN Header -> RawCells], MaxRows)

CsvFiles ==
    {[exists |-> FALSE, decodable |-> TRUE, hasHeader |-> FALSE,
      fieldnames |-> <<>>, records |-> <<>>],
     [exists |-> TRUE, decodable |-> TRUE, hasHeader |-> FALSE,
      fieldnames |-> <<>>, records |-> <<>>]}
    \cup {[exists |-> TRUE, decodable |-> d, hasHeader |-> TRUE,
           fieldnames |-> Header, records |-> rs] :
            d \in BOOLEAN, rs \in RawRecords}

ExistingNames == {Str_juan \o Str_docx, Str_juan_1 \o Str_docx}
OutputDirs == {[f \in F |-> OldDocument] : F \in SUBSET ExistingNames}

InitMain ==
    /\ pc = "check_csv"
    /\ csv \in CsvFiles
    /\ templateExists \in BOOLEAN
    /\ disk0 \in OutputDirs
    /\ disk = disk0
    /\ outdirExists \in (IF disk0 = EmptyTable THEN BOOLEAN ELSE {TRUE})
    /\ name_column \in {None, Str_Name}
    /\ rows = <<>> /\ rowIndex = 0 /\ replacements = EmptyTable
    /\ document = Unset /\ base_name = Unset /\ counter = 0
    /\ final_path = Unset /\ saved = <<>> /\ printed = <<>>
    /\ exitStatus = -1
    /\ pieces = <<>> /\ row = <<>> /\ index = 0
    /\ evaluated = Unset /\ base = Unset
    /\ text = <<>> /\ updated = Unset
    /\ IdleNorm

\* print("[ERROR] ...") and sys.exit(1)
Fatal ==
    /\ printed' = Append(printed, "ERROR")
    /\ exitStatus' = 1
    /\ pc' = "exited"

\* if not csv_path.exists(): ...
CheckCsv ==
    /\ pc = "check_csv"
    /\ IF ~csv.exists THEN Fatal
       ELSE pc' = "check_template" /\ UNCHANGED <<printed, exitStatus>>
    /\ UNCHANGED <<csv, templateExists, outdirExists, disk, disk0, rows,
                   rowIndex, document, base_name, counter, final_path, saved,
                   normVars, substVars, nameVars>>

\* if not template_path.exists(): ...
CheckTemplate ==
    /\ pc = "check_template"
    /\ IF ~templateExists THEN Fatal
       ELSE pc' = "mkdir" /\ UNCHANGED <<printed, exitStatus>>
    /\ UNCHANGED <<csv, templateExists, outdirExists, disk, disk0, rows,
                   rowIndex, document, base_name, counter, final_path, saved,
                   normVars, substVars, nameVars>>

\* outdir.mkdir(parents=True, exist_ok=True)
MakeOutdir ==
    /\ pc = "mkdir"
    /\ outdirExists' = TRUE
    /\ pc' = "load"
    /\ UNCHANGED <<csv, templateExists, disk, disk0, rows, rowIndex, document,
                   base_name, counter, final_path, saved, printed, exitStatus,
                   normVars, substVars, nameVars>>

clean_cell_value(value) == Strip(value)

\* The dict load_rows yields for one record of the CSV.
RowOf(fieldnames, record) ==
    [i \in DOMAIN fieldnames |-> <<fieldnames[i], clean_cell_value(record[i])>>]

\* "Skip completely empty rows"
IsBlankRecord(record) == \A i \in DOMAIN record : Strip(record[i]) = <<>>

\* list(load_rows(csv_path, encoding)) of a CSV that decodes and has headers
RECURSIVE load_rows(_, _)
load_rows(fieldnames, records) ==
    IF records = <<>> THEN <<>>
    ELSE (IF IsBlankRecord(Head(records)) THEN <<>>
          ELSE <<RowOf(fieldnames, Head(records))>>)
            \o load_rows(fieldnames, Tail(records))

\* LoadRows with the rows read lazily, so that a CSV that does not decode is
\* not found out before the loop over the rows starts.
LoadRows_lazy ==
    /\ pc = "load"
    /\ IF ~csv.hasHeader
       THEN Fatal /\ UNCHANGED rows
       ELSE /\ rows' = load_rows(csv.fieldnames, csv.records)
            /\ pc' = "next_row"
            /\ UNCHANGED <<printed, exitStatus>>
    /\ UNCHANGED <<csv, templateExists, outdirExists, disk, disk0, rowIndex,
                   document, base_name, counter, final_path, saved,
                   normVars, substVars, nameVars>>

\* rows = list(load_rows(...)), with its two errors and the empty case
LoadRows ==
    /\ pc = "load"
    /\ IF ~csv.decodable \/ ~csv.hasHeader
       THEN Fatal /\ UNCHANGED rows
       ELSE LET loaded == load_rows(csv.fieldnames, csv.records)
            IN  /\ rows' = loaded
                /\ IF loaded = <<>>
                   THEN /\ printed' = Append(printed, "WARN")
                        /\ exitStatus' = 0
                        /\ pc' = "returned"
                   ELSE /\ pc' = "next_row"
                        /\ UNCHANGED <<printed, exitStatus>>
    /\ UNCHANGED <<csv, templateExists, outdirExists, disk, disk0, rowIndex,
                   document, base_name, counter, final_path, saved,
                   normVars, substVars, nameVars>>

\* apply_replacements on the paragraphs of a document
apply_replacements(paragraphs, table) ==
    [i \in DOMAIN paragraphs |->
        LET original == paragraphs[i]
            changed == replace_placeholders(original, table)
        IN  IF changed # original THEN changed ELSE original]

\* outdir / f"{base_name}.docx"
OutputPath(b) == b \o Str_docx

\* CandidatePath with the counter starting at 0.
CandidatePath_fromZero(b, n) == b \o <<"_">> \o Decimal(n - 1) \o Str_docx

\* outdir / f"{base_name}_{counter}.docx"
CandidatePath(b, n) == b \o <<"_">> \o Decimal(n) \o Str_docx

\* PathExists of a loop that never looks at the directory.
PathExists_never(path, dir) == FALSE

\* final_path.exists()
PathExists(path, dir) == path \in DOMAIN dir

\* The body of the loop over the rows, up to the while loop.
BeginRow ==
    /\ pc = "next_row"
    /\ rowIndex < Len(rows)
    /\ rowIndex' = rowIndex + 1
    /\ replacements' = row_to_replacements(rows[rowIndex'])
    /\ document' = apply_replacements(TemplateParagraphs, replacements')
    /\ base_name' = resolve_name(rows[rowIndex'], replacements', name_column,
                                 rowIndex')
    /\ final_path' = OutputPath(base_name')
    /\ counter' = 1
    /\ pc' = "exists"
    /\ UNCHANGED <<csv, templateExists, outdirExists, disk, disk0, rows, saved,
                   printed, exitStatus, normVars, nameVars, text, updated>>

\* One turn of "while final_path.exists()".
NextCandidate ==
    /\ pc = "exists"
    /\ PathExists(final_path, disk)
    /\ final_path' = CandidatePath(base_name, counter)
    /\ counter' = counter + 1
    /\ UNCHANGED <<pc, csv, templateExists, outdirExists, disk, disk0, rows,
                   rowIndex, document, base_name, saved, printed, exitStatus,
                   normVars, substVars, nameVars>>

\* document.save(str(final_path)) and print("[OK] ...")
SaveRow ==
    /\ pc = "exists"
    /\ ~PathExists(final_path, disk)
    /\ disk' = Put(disk, final_path, document)
    /\ saved' = Append(saved, final_path)
    /\ printed' = Append(printed, "OK")
    /\ pc' = "next_row"
    /\ UNCHANGED <<csv, templateExists, outdirExists, disk0, rows, rowIndex,
                   document, base_name, counter, final_path, exitStatus,
                   normVars, substVars, nameVars>>

\* The loop is over and main returns.
Finish ==
    /\ pc = "next_row"
    /\ rowIndex = Len(rows)
    /\ exitStatus' = 0
    /\ pc' = "returned"
    /\ UNCHANGED <<csv, templateExists, outdirExists, disk, disk0, rows,
                   rowIndex, document, base_name, counter, final_path, saved,
                   printed, normVars, substVars, nameVars>>

NextMain ==
    \/ CheckCsv
    \/ CheckTemplate
    \/ MakeOutdir
    \/ LoadRows
    \/ BeginRow
    \/ NextCandidate
    \/ SaveRow
    \/ Finish

SpecMain == InitMain /\ [][NextMain]_vars

\* C6: the rows of a run are saved under names that differ from each other
\* and from the names of the files that were there before, which are left
\* as they were, and every row the loop has finished with has been saved.
C6_NoNameTwice ==
    /\ \A i, j \in DOMAIN saved : i # j => saved[i] # saved[j]
    /\ \A f \in DOMAIN disk0 :
            /\ f \in DOMAIN disk /\ disk[f] = disk0[f]
            /\ \A i \in DOMAIN saved : saved[i] # f
    /\ \A i \in DOMAIN saved : saved[i] \in DOMAIN disk
    /\ pc \in {"next_row", "returned"} => Len(saved) = rowIndex

\* C6's case: juan.docx was there before the run; the first row, juan, is
\* saved as juan_1.docx, and the second row, juan_1, finds its own name taken
\* by the first.
C6_Witness ==
    /\ pc = "returned"
    /\ DOMAIN disk0 = {Str_juan \o Str_docx}
    /\ saved = <<Str_juan_1 \o Str_docx,
                 Str_juan_1 \o <<"_", "1">> \o Str_docx>>

\* One of the errors that end the run.
FatalInput ==
    \/ ~csv.exists
    \/ ~templateExists
    \/ ~csv.decodable
    \/ ~csv.hasHeader

\* C8: in a run with a missing CSV, a missing template, a CSV without
\* headers or one that does not decode, no row is ever substituted or saved
\* and the output directory keeps its contents, and the run ends with the
\* error reported and exit status 1.
C8_FatalBeforeRows ==
    FatalInput =>
        /\ rowIndex = 0 /\ document = Unset /\ base_name = Unset
        /\ saved = <<>> /\ disk = disk0
        /\ pc # "returned"
        /\ pc = "exited" <=> exitStatus = 1
        /\ pc = "exited" <=> printed = <<"ERROR">>
        /\ pc # "exited" => printed = <<>> /\ exitStatus = -1

\* C8's case: a CSV with three records that does not decode, after the
\* template was found and the output directory made.
C8_Witness ==
    /\ pc = "exited"
    /\ csv.exists /\ templateExists /\ csv.hasHeader /\ ~csv.decodable
    /\ Len(csv.records) = 3
    /\ outdirExists

\* The names C10 speaks of: B.docx and B_k.docx.
PlainName(b) == b \o <<".", "d", "o", "c", "x">>
NumberedName(b, k) == b \o <<"_">> \o Decimal(k) \o <<".", "d", "o", "c", "x">>

\* The least k >= 1 for which B_k.docx is not in the directory.
LeastFreeSuffix(b, dir) ==
    CHOOSE k \in 1..(Cardinality(DOMAIN dir) + 1) :
        /\ NumberedName(b, k) \notin DOMAIN dir
        /\ \A j \in 1..(k - 1) : NumberedName(b, j) \in DOMAIN dir

\* The name C10 gives the row with base name b.
SuffixedName(b, dir) ==
    IF PlainName(b) \notin DOMAIN dir THEN PlainName(b)
    ELSE NumberedName(b, LeastFreeSuffix(b, dir))

\* The base name of the i-th row.
BaseOf(i) == resolve_name(rows[i], row_to_replacements(rows[i]), name_column, i)

\* C10: a row with base name B is saved as B.docx when that name is free
\* and else as B_k.docx for the least k >= 1 whose name is free; so rows
\* with one base name B in a directory that was empty are saved as B.docx,
\* B_1.docx, B_2.docx, ... in their order.
C10_LeastFreeSuffix ==
    /\ [][saved' # saved =>
            saved' = Append(saved, SuffixedName(base_name, disk))]_vars
    /\ [](\A n \in DOMAIN saved :
            (disk0 = EmptyTable /\ \A i \in 1..n : BaseOf(i) = BaseOf(1))
                => saved[n] = IF n = 1 THEN PlainName(BaseOf(1))
                              ELSE NumberedName(BaseOf(1), n - 1))

\* C10's case: three rows juan in an empty directory.
C10_Witness ==
    /\ disk0 = EmptyTable
    /\ saved = <<Str_juan \o Str_docx,
                 Str_juan_1 \o Str_docx,
                 Str_juan \o <<"_", "2">> \o Str_docx>>
    /\ \A i \in 1..3 : BaseOf(i) = Str_juan

====
